---- MODULE Spec2Model ----
(***************************************************************************)
(* A model of marvin.tools.query.Query (src/python/marvin/tools/query.py): *)
(* construction of a Query (mode decision, local compilation), and the     *)
(* local and remote run paths with the query-history bookkeeping.          *)
(* The steps of the local compilation (field lists, nexus), the pipeline   *)
(* filter, the npergood rewrite and the row fetch are each modelled on     *)
(* their own inputs, under a specification of their own.                   *)
(*                                                                         *)
(* A Python value that may be None is a set with at most one element:      *)
(* None is {} and the integer n is {n}.                                    *)
(***************************************************************************)
EXTENDS Integers, Sequences, FiniteSets, TLC

\* ------------------------------------------------------------------ bounds
\* largest row count a live count query returns
MaxCount == 3
\* largest count_threshold a Query is built with
MaxThreshold == 2
\* largest limit a Query is built with
MaxLimit == 2
\* largest start / end index passed to run()
MaxIdx == 2
\* number of run() calls made in one behaviour
MaxRuns == 2
\* largest number of rows of one kind in a group of the spaxel table
MaxGroupRows == 2
\* largest number of rows of a result that is fetched
MaxResult == 6
\* largest n_rows a fetch is made with
MaxChunk == 3
\* largest number of characters of a filter text
MaxText == 3

\* ------------------------------------------------------------- value sets
Procs == {"q1", "q2"}

None == {}
Some(n) == {n}
Val(x) == CHOOSE v \in x : TRUE
Opt(S) == {None} \cup {Some(n) : n \in S}

\* Python truthiness of an optional integer: None and 0 are false.
Truthy(x) == x # None /\ x # Some(0)

\* the search filters a Query is built with; NoFilter is search_filter = None
NoFilter == "None"
SearchFilters == {NoFilter, "nsa.z < 0.1", "cube.ra > 5"}
Releases == {"MPL-5", "MPL-6"}
Modes == {"local", "remote", "auto", "other"}

\* outcomes of local compilation (_init_local_query)
CompileOutcomes == {"ok", "MarvinError", "OperationalError"}

\* ------------------------------------------------------------------ state
VARIABLES
    config_db,        \* config.db: a local database is configured
    config_urlmap,    \* config.urlmap: the remote API routes are known
    isdbconnected,    \* marvindb.isdbconnected
    history,          \* the query table of the history schema, in insertion order
    nruns,            \* run() calls made so far
    pc,               \* where each Query is: construction, stage of its run
    reqmode,          \* the mode argument of __init__
    mode,             \* self.mode
    data_origin,      \* self.data_origin
    search_filter,    \* self.search_filter
    release,          \* self.release
    return_all,       \* self.return_all
    count_threshold,  \* self.count_threshold
    limit,            \* self.limit
    _nexus,           \* self._nexus
    start,            \* the start argument of run()
    end,              \* the end argument of run()
    totalcount,       \* the local totalcount of _run_local
    qm,               \* the history row _check_history holds, as loaded
    query,            \* the local query of _run_local: the window slice() applied
    _start,           \* self._start
    _end,             \* self._end
    _count,           \* self._count
    fallbacks,        \* times _set_mma fell back from local to remote
    err,              \* the exception the last call raised to the caller
    livecounts,       \* live count queries issued by the current run
    wrote             \* what the current run wrote to the history table

envvars == <<config_db, config_urlmap, isdbconnected>>
objvars == <<reqmode, mode, data_origin, search_filter, release, return_all,
             count_threshold, limit, _nexus>>
runvars == <<start, end, totalcount, qm, query, _start, _end, _count,
             livecounts, wrote>>

\* local compilation of one Query (_init_local_query, lines 236-249)
VARIABLES
    cpc,                 \* the step of the compilation reached
    return_type,         \* self.return_type
    arg_default_params,  \* the list object the caller passed as default_params
    default_params,      \* self.default_params
    return_params,       \* self.return_params
    filter_arg,          \* self.search_filter of the Query being compiled
    uniqueparams,        \* parsed.uniqueparams: the fields of the search filter
    params,              \* self.params
    nexus,               \* self.nexus
    projection,          \* the labels of the columns of the base query
    _modellist,          \* self._modellist
    anchor               \* the nexus handed to getJoins

compvars == <<cpc, return_type, arg_default_params, default_params, return_params,
              filter_arg, uniqueparams, params, nexus, projection, _modellist, anchor>>

\* _add_pipeline on one compiled query
VARIABLES
    ppc,         \* "joined" before _add_pipeline, then its outcome
    jointables,  \* the tables of the compiled query
    drppipe,     \* the DRP pipeline row was loaded and its filter attached
    dappipe      \* the DAP pipeline row was loaded and its filter attached

pipevars == <<ppc, jointables, drppipe, dappipe>>

\* _get_percent on one group (one file_pk) of the spaxel table
VARIABLES
    gpc,         \* "start" before _get_percent, "done" after
    spaxelclass, \* self._spaxelclass.__name__
    group,       \* the rows of the group: how many are valid / satisfy the condition
    op2,         \* the operator of the function condition
    t2,          \* the value of the function condition, a percentage
    goodcount,   \* the row of the group in the subquery of _get_good_spaxels
    valcount,    \* the row of the group in the subquery of _get_count_of
    kept         \* the group is in the rows the rewritten query selects

percvars == <<gpc, spaxelclass, group, op2, t2, goodcount, valcount, kept>>

\* _fetch_data on one executed query
VARIABLES
    fpc,         \* "start" before _fetch_data, "loop" in its loop, "done" after
    fetch_all,   \* self.return_all
    n_rows,      \* the n_rows argument
    resultsize,  \* number of rows of the result
    cursor,      \* rows the cursor has not handed over yet
    batch,       \* number of rows of the last batch (the list rows)
    reslist      \* number of rows in the list res

fetchvars == <<fpc, fetch_all, n_rows, resultsize, cursor, batch, reslist>>

\* _check_shortcuts_in_filter on one filter text
VARIABLES
    spc,         \* times _check_shortcuts_in_filter was applied to the text
    shortcuts,   \* _nameShortcuts: the (key, full name) pairs, in iteration order
    filtertext,  \* self.search_filter, as its characters
    firstpass    \* the text the first application left

shortvars == <<spc, shortcuts, filtertext, firstpass>>

runmodel == <<envvars, history, nruns, pc, objvars, runvars, fallbacks, err>>
purevars == <<compvars, pipevars, percvars, fetchvars, shortvars>>
vars == <<envvars, history, nruns, pc, objvars, runvars, fallbacks, err, purevars>>

\* ------------------------------------------------- mode decision (the MMA)
\* _do_local: local mode needs a configured database
DoLocal == IF config_db
           THEN [ok |-> TRUE, mode |-> "local", data_origin |-> "db"]
           ELSE [ok |-> FALSE, mode |-> "None", data_origin |-> "None"]

\* _do_remote: remote mode needs the URL map
DoRemote == IF config_urlmap
            THEN [ok |-> TRUE, mode |-> "remote", data_origin |-> "api"]
            ELSE [ok |-> FALSE, mode |-> "None", data_origin |-> "None"]

\* SetMma without the final check of the data origin (line 215)
SetMmaUnchecked(m) ==
    LET res(r, fb) == [mode |-> IF r.ok THEN r.mode ELSE m,
                       data_origin |-> r.data_origin,
                       fallbacks |-> fb,
                       err |-> IF r.ok THEN "none" ELSE "MarvinError"]
    IN  CASE m = "local"  -> res(DoLocal, 0)
          [] m = "remote" -> res(DoRemote, 0)
          [] m = "auto"   -> IF DoLocal.ok THEN res(DoLocal, 0) ELSE res(DoRemote, 1)
          [] OTHER        -> [mode |-> m, data_origin |-> "None", fallbacks |-> 0,
                              err |-> "none"]

\* SetMma with the fallback to remote made in local mode as well
SetMmaLocalFallsBack(m) ==
    LET res(r, fb) == [mode |-> IF r.ok THEN r.mode ELSE m,
                       data_origin |-> r.data_origin,
                       fallbacks |-> fb,
                       err |-> IF r.ok THEN "none" ELSE "MarvinError"]
    IN  CASE m \in {"local", "auto"} ->
                IF DoLocal.ok THEN res(DoLocal, 0) ELSE res(DoRemote, 1)
          [] m = "remote" -> res(DoRemote, 0)
          [] OTHER        -> [mode |-> m, data_origin |-> "None", fallbacks |-> 0,
                              err |-> "AssertionError"]

\* _set_mma for a requested mode m: the mode and data origin it leaves, the
\* number of fallbacks from local to remote it made, and the error it raised.
\* Only the MarvinError of _do_local is caught, and only in auto mode.
SetMma(m) ==
    LET res(r, fb) == [mode |-> IF r.ok THEN r.mode ELSE m,
                       data_origin |-> r.data_origin,
                       fallbacks |-> fb,
                       err |-> IF r.ok THEN "none" ELSE "MarvinError"]
    IN  CASE m = "local"  -> res(DoLocal, 0)
          [] m = "remote" -> res(DoRemote, 0)
          [] m = "auto"   -> IF DoLocal.ok THEN res(DoLocal, 0) ELSE res(DoRemote, 1)
          [] OTHER        -> [mode |-> m, data_origin |-> "None", fallbacks |-> 0,
                              err |-> "AssertionError"]

\* ------------------------------------------------------- the history table
\* the compiled SQL text show() gives for a Query built with search filter f
\* (the other inputs of the compilation held fixed)
Show(f) == CASE f = NoFilter      -> "SELECT mangaid, plateifu FROM cube"
             [] f = "nsa.z < 0.1" -> "SELECT mangaid, plateifu, z FROM cube JOIN nsa WHERE z < 0.1"
             [] OTHER             -> "SELECT mangaid, plateifu, ra FROM cube WHERE ra > 5"

\* the rows of the table h that the filter sql == rawsql, release == rel selects
Matching(h, rawsql, rel) ==
    {i \in 1..Len(h) : h[i].sql = rawsql /\ h[i].release = rel}

\* the lookup of _check_history (lines 489-494) by the Query p: the error it
\* raises and the row it loads. search_filter.strip() fails on None before the
\* store is asked; one_or_none() fails on more than one row.
HistoryLookupResult(p, ok) ==
    LET m == Matching(history, Show(search_filter[p]), release[p])
    IN  CASE search_filter[p] = NoFilter -> [err |-> "AttributeError", qm |-> None]
          [] ~ok                         -> [err |-> "OperationalError", qm |-> None]
          [] Cardinality(m) > 1          -> [err |-> "MultipleResultsFound", qm |-> None]
          [] m = {}                      -> [err |-> "none", qm |-> None]
          [] OTHER -> [err |-> "none",
                       qm |-> Some([id |-> Val(m), n_run |-> history[Val(m)].n_run,
                                    count |-> history[Val(m)].count])]

\* HistoryWritten with the row found by the lookup ignored: always a new row
HistoryWrittenAlwaysInserts(h, row, rawsql, rel, total) ==
    Append(h, [sql |-> rawsql, release |-> rel, n_run |-> 1, count |-> total])

\* the transaction of _check_history (lines 499-505) on table h: a new row
\* when the lookup found none, else the loaded row's counter plus one
HistoryWritten(h, row, rawsql, rel, total) ==
    IF row = None
    THEN Append(h, [sql |-> rawsql, release |-> rel, n_run |-> 1, count |-> total])
    ELSE [h EXCEPT ![Val(row).id].n_run = Val(row).n_run + 1]

\* ------------------------------------------------------------- the window
\* SliceQuery with the clamped window ending at the threshold, not the limit
SliceQueryClampsToThreshold(s, e, total, threshold, lim, retall) ==
    LET count == IF Truthy(s) /\ Truthy(e) THEN Val(e) - Val(s) ELSE total
    IN  IF count > threshold /\ ~retall
        THEN [start |-> Some(0), end |-> Some(threshold), count |-> threshold - 0]
        ELSE IF retall
        THEN [start |-> None, end |-> None, count |-> count]
        ELSE [start |-> s, end |-> e, count |-> count]

\* SliceQuery with the test of return_all left out of the first branch
SliceQueryIgnoresReturnAll(s, e, total, threshold, lim, retall) ==
    LET count == IF Truthy(s) /\ Truthy(e) THEN Val(e) - Val(s) ELSE total
    IN  IF count > threshold
        THEN [start |-> Some(0), end |-> Some(lim), count |-> lim - 0]
        ELSE IF retall
        THEN [start |-> None, end |-> None, count |-> count]
        ELSE [start |-> s, end |-> e, count |-> count]

\* _slice_query (lines 525-561) without the history write: the window and the
\* served count for run arguments s, e and total count total
SliceQuery(s, e, total, threshold, lim, retall) ==
    LET count == IF Truthy(s) /\ Truthy(e) THEN Val(e) - Val(s) ELSE total
    IN  IF count > threshold /\ ~retall
        THEN [start |-> Some(0), end |-> Some(lim), count |-> lim - 0]
        ELSE IF retall
        THEN [start |-> None, end |-> None, count |-> count]
        ELSE [start |-> s, end |-> e, count |-> count]

\* --------------------------------------------------------------- actions
\* no Query has been built and none has run
InitRun ==
    /\ config_db \in BOOLEAN
    /\ config_urlmap \in BOOLEAN
    /\ isdbconnected \in BOOLEAN
    /\ history = <<>>
    /\ nruns = 0
    /\ pc = [p \in Procs |-> "new"]
    /\ reqmode = [p \in Procs |-> "None"]
    /\ mode = [p \in Procs |-> "None"]
    /\ data_origin = [p \in Procs |-> "None"]
    /\ search_filter = [p \in Procs |-> NoFilter]
    /\ release = [p \in Procs |-> "MPL-6"]
    /\ return_all = [p \in Procs |-> FALSE]
    /\ count_threshold = [p \in Procs |-> 0]
    /\ limit = [p \in Procs |-> 1]
    /\ _nexus = [p \in Procs |-> "cube"]
    /\ start = [p \in Procs |-> None]
    /\ end = [p \in Procs |-> None]
    /\ totalcount = [p \in Procs |-> None]
    /\ qm = [p \in Procs |-> None]
    /\ query = [p \in Procs |-> None]
    /\ _start = [p \in Procs |-> None]
    /\ _end = [p \in Procs |-> None]
    /\ _count = [p \in Procs |-> None]
    /\ fallbacks = [p \in Procs |-> 0]
    /\ err = [p \in Procs |-> "none"]
    /\ livecounts = [p \in Procs |-> 0]
    /\ wrote = [p \in Procs |-> "none"]

\* no compilation is under way
CompileIdle ==
    /\ cpc = "idle"
    /\ return_type = "None"
    /\ arg_default_params = None
    /\ default_params = <<>>
    /\ return_params = <<>>
    /\ filter_arg = "None"
    /\ uniqueparams = <<>>
    /\ params = <<>>
    /\ nexus = "cube"
    /\ projection = <<>>
    /\ _modellist = <<>>
    /\ anchor = "None"

\* no query is at _add_pipeline
PipelineIdle ==
    /\ ppc = "idle"
    /\ jointables = {}
    /\ drppipe = FALSE
    /\ dappipe = FALSE

\* no function condition is being rewritten
PercentIdle ==
    /\ gpc = "idle"
    /\ spaxelclass = "SpaxelProp"
    /\ group = [vs |-> 0, vu |-> 0, is |-> 0, iu |-> 0]
    /\ op2 = "="
    /\ t2 = 0
    /\ goodcount = None
    /\ valcount = None
    /\ kept = FALSE

\* no result is being fetched
FetchIdle ==
    /\ fpc = "idle"
    /\ fetch_all = FALSE
    /\ n_rows = 1
    /\ resultsize = 0
    /\ cursor = 0
    /\ batch = 0
    /\ reslist = 0

\* no filter text is being expanded
ShortcutIdle ==
    /\ spc = 0
    /\ shortcuts = <<>>
    /\ filtertext = <<>>
    /\ firstpass = <<>>

Init == InitRun /\ CompileIdle /\ PipelineIdle /\ PercentIdle /\ FetchIdle
            /\ ShortcutIdle

\* the call raises exception e to its caller
Raise(p, e) ==
    /\ pc' = [pc EXCEPT ![p] = "FAILED"]
    /\ err' = [err EXCEPT ![p] = e]

\* Query.__init__ (lines 135-184): the mode decision, then for a local origin
\* the compilation, whose outcome is compiled; nx is the nexus argument
Construct(p, m, sf, rel, retall, threshold, lim, compiled, nx) ==
    /\ pc[p] = "new"
    /\ LET mma == SetMma(m)
           failed == \/ mma.err # "none"
                     \/ mma.data_origin = "db" /\ compiled # "ok"
       IN  /\ reqmode' = [reqmode EXCEPT ![p] = m]
           /\ mode' = [mode EXCEPT ![p] = IF failed THEN "None" ELSE mma.mode]
           /\ data_origin' = [data_origin EXCEPT ![p] =
                                 IF failed THEN "None" ELSE mma.data_origin]
           /\ fallbacks' = [fallbacks EXCEPT ![p] = mma.fallbacks]
           /\ err' = [err EXCEPT ![p] = IF mma.err # "none" THEN mma.err
                                        ELSE IF failed THEN compiled ELSE "none"]
           /\ pc' = [pc EXCEPT ![p] = IF failed THEN "NOQUERY"
                                      ELSE IF mma.data_origin = "db" THEN "COMPILED"
                                      ELSE "REMOTE"]
           /\ IF failed
              THEN UNCHANGED <<search_filter, release, return_all, count_threshold, limit,
                               _nexus>>
              ELSE /\ search_filter' = [search_filter EXCEPT ![p] = sf]
                   /\ _nexus' = [_nexus EXCEPT ![p] = nx]
                   /\ release' = [release EXCEPT ![p] = rel]
                   /\ return_all' = [return_all EXCEPT ![p] = retall]
                   /\ count_threshold' = [count_threshold EXCEPT ![p] = threshold]
                   /\ limit' = [limit EXCEPT ![p] = lim]
    /\ UNCHANGED <<envvars, purevars, history, nruns, runvars>>

\* doQuery (lines 58-68) runs each Query it builds once: run() (lines 290-293)
\* on a local origin, up to the call of _get_query_count (lines 385-400), with
\* the window arguments s and e
Run(p, s, e) ==
    /\ pc[p] = "COMPILED"
    /\ data_origin[p] = "db"
    /\ nruns < MaxRuns
    /\ nruns' = nruns + 1
    /\ pc' = [pc EXCEPT ![p] = "COUNTING"]
    /\ err' = [err EXCEPT ![p] = "none"]
    /\ start' = [start EXCEPT ![p] = s]
    /\ end' = [end EXCEPT ![p] = e]
    /\ totalcount' = [totalcount EXCEPT ![p] = None]
    /\ qm' = [qm EXCEPT ![p] = None]
    /\ query' = [query EXCEPT ![p] = None]
    /\ livecounts' = [livecounts EXCEPT ![p] = 0]
    /\ wrote' = [wrote EXCEPT ![p] = "none"]
    /\ UNCHANGED <<envvars, purevars, history, objvars, _start, _end, _count, fallbacks>>

\* StoredCount with the history row ignored: a live count every time
StoredCountIgnored(row) == None

\* the count _get_query_count (lines 461-470) takes from the history row row:
\* the stored count, or None when there is no row
StoredCount(row) == IF row # None THEN Val(row).count ELSE None

\* _get_query_count (lines 450-470): the history lookup when the store is
\* connected, then a live count (returning n) when that gave no count
GetQueryCount(p, okLookup, okCount, n) ==
    /\ pc[p] = "COUNTING"
    /\ LET looked == IF isdbconnected THEN HistoryLookupResult(p, okLookup)
                     ELSE [err |-> "none", qm |-> None]
           stored == StoredCount(looked.qm)
       IN  IF looked.err # "none"
           THEN Raise(p, looked.err) /\ UNCHANGED <<totalcount, livecounts>>
           ELSE IF stored # None
           THEN /\ totalcount' = [totalcount EXCEPT ![p] = stored]
                /\ pc' = [pc EXCEPT ![p] = "SLICING"]
                /\ UNCHANGED <<livecounts, err>>
           ELSE /\ livecounts' = [livecounts EXCEPT ![p] = @ + 1]
                /\ IF okCount
                   THEN /\ totalcount' = [totalcount EXCEPT ![p] = Some(n)]
                        /\ pc' = [pc EXCEPT ![p] = "SLICING"]
                        /\ UNCHANGED err
                   ELSE Raise(p, "OperationalError") /\ UNCHANGED totalcount
    /\ UNCHANGED <<envvars, purevars, history, nruns, objvars, start, end, qm, query,
                   _start, _end, _count, wrote, fallbacks>>

\* the end of _slice_query (lines 540-561): the window is applied to the query
\* and recorded on the Query
ApplySlice(p) ==
    LET w == SliceQuery(start[p], end[p], Val(totalcount[p]), count_threshold[p],
                        limit[p], return_all[p])
    IN  /\ query' = [query EXCEPT ![p] = Some(<<w.start, w.end>>)]
        /\ _start' = [_start EXCEPT ![p] = w.start]
        /\ _end' = [_end EXCEPT ![p] = w.end]
        /\ _count' = [_count EXCEPT ![p] = Some(w.count)]
        /\ pc' = [pc EXCEPT ![p] = "SLICED"]

\* _slice_query, store connected: the lookup of _check_history (lines 489-497)
HistoryLookup(p, ok) ==
    /\ pc[p] = "SLICING"
    /\ isdbconnected
    /\ LET looked == HistoryLookupResult(p, ok)
       IN  IF looked.err # "none"
           THEN Raise(p, looked.err) /\ UNCHANGED qm
           ELSE /\ qm' = [qm EXCEPT ![p] = looked.qm]
                /\ pc' = [pc EXCEPT ![p] = "WRITING"]
                /\ UNCHANGED err
    /\ UNCHANGED <<envvars, purevars, history, nruns, objvars, start, end, totalcount, query,
                   _start, _end, _count, livecounts, wrote, fallbacks>>

\* _slice_query, store connected: the transaction of _check_history (lines
\* 499-507), then the window (lines 540-561)
HistoryWrite(p, ok) ==
    /\ pc[p] = "WRITING"
    /\ IF ok
       THEN /\ history' = HistoryWritten(history, qm[p], Show(search_filter[p]),
                                         release[p], totalcount[p])
            /\ wrote' = [wrote EXCEPT ![p] = IF qm[p] = None THEN "insert" ELSE "increment"]
            /\ ApplySlice(p)
            /\ UNCHANGED err
       ELSE /\ Raise(p, "OperationalError")
            /\ UNCHANGED <<history, wrote, query, _start, _end, _count>>
    /\ UNCHANGED <<envvars, purevars, nruns, objvars, start, end, totalcount, qm, livecounts,
                   fallbacks>>

\* _slice_query, store not connected (line 537 false): the window alone
SliceUnconnected(p) ==
    /\ pc[p] = "SLICING"
    /\ ~isdbconnected
    /\ ApplySlice(p)
    /\ UNCHANGED <<envvars, purevars, history, nruns, objvars, start, end, totalcount, qm,
                   livecounts, wrote, fallbacks, err>>

\* ExecuteQuery run before _slice_query has fixed the window
ExecuteQueryUnsliced(p, ok) ==
    /\ pc[p] \in {"SLICING", "SLICED"}
    /\ IF ok THEN pc' = [pc EXCEPT ![p] = "FETCHING"] /\ UNCHANGED err
       ELSE Raise(p, "OperationalError")
    /\ UNCHANGED <<envvars, purevars, history, nruns, objvars, runvars, fallbacks>>

\* _get_results (lines 594-599): the sliced query is sent to the store
ExecuteQuery(p, ok) ==
    /\ pc[p] = "SLICED"
    /\ IF ok THEN pc' = [pc EXCEPT ![p] = "FETCHING"] /\ UNCHANGED err
       ELSE Raise(p, "OperationalError")
    /\ UNCHANGED <<envvars, purevars, history, nruns, objvars, runvars, fallbacks>>

\* _fetch_data and the rest of _run_local (lines 600, 408-424): the rows are
\* read and the Results returned
FetchData(p, ok) ==
    /\ pc[p] = "FETCHING"
    /\ IF ok THEN pc' = [pc EXCEPT ![p] = "DONE"] /\ UNCHANGED err
       ELSE Raise(p, "OperationalError")
    /\ UNCHANGED <<envvars, purevars, history, nruns, objvars, runvars, fallbacks>>

\* run() on a remote origin: _run_remote (lines 297-365). The Interaction may
\* raise, which is wrapped in a MarvinError; getData() and the reading of the
\* response (lines 336-345) are outside the try.
RunRemote(p, outcome) ==
    /\ pc[p] = "REMOTE"
    /\ data_origin[p] = "api"
    /\ nruns < MaxRuns
    /\ nruns' = nruns + 1
    /\ CASE outcome = "ok" -> pc' = [pc EXCEPT ![p] = "DONE"] /\ UNCHANGED err
         [] outcome = "interaction_raises" -> Raise(p, "MarvinError")
         [] OTHER -> Raise(p, "Exception")
    /\ UNCHANGED <<envvars, purevars, history, objvars, runvars, fallbacks>>

RemoteOutcomes == {"ok", "interaction_raises", "getdata_raises"}

\* the caller drops a Query whose call has returned or raised; the name is
\* free for the next Query
Discard(p) ==
    /\ pc[p] \in {"DONE", "FAILED", "NOQUERY"}
    /\ nruns < MaxRuns
    /\ pc' = [pc EXCEPT ![p] = "new"]
    /\ reqmode' = [reqmode EXCEPT ![p] = "None"]
    /\ mode' = [mode EXCEPT ![p] = "None"]
    /\ data_origin' = [data_origin EXCEPT ![p] = "None"]
    /\ search_filter' = [search_filter EXCEPT ![p] = NoFilter]
    /\ release' = [release EXCEPT ![p] = "MPL-6"]
    /\ return_all' = [return_all EXCEPT ![p] = FALSE]
    /\ count_threshold' = [count_threshold EXCEPT ![p] = 0]
    /\ limit' = [limit EXCEPT ![p] = 1]
    /\ _nexus' = [_nexus EXCEPT ![p] = "cube"]
    /\ start' = [start EXCEPT ![p] = None]
    /\ end' = [end EXCEPT ![p] = None]
    /\ totalcount' = [totalcount EXCEPT ![p] = None]
    /\ qm' = [qm EXCEPT ![p] = None]
    /\ query' = [query EXCEPT ![p] = None]
    /\ _start' = [_start EXCEPT ![p] = None]
    /\ _end' = [_end EXCEPT ![p] = None]
    /\ _count' = [_count EXCEPT ![p] = None]
    /\ fallbacks' = [fallbacks EXCEPT ![p] = 0]
    /\ err' = [err EXCEPT ![p] = "none"]
    /\ livecounts' = [livecounts EXCEPT ![p] = 0]
    /\ wrote' = [wrote EXCEPT ![p] = "none"]
    /\ UNCHANGED <<envvars, purevars, history, nruns>>

\* the steps of a local run of the Query p after run() was entered
LocalStep(p) ==
    \/ \E okLookup \in BOOLEAN, okCount \in BOOLEAN, n \in 0..MaxCount :
            GetQueryCount(p, okLookup, okCount, n)
    \/ \E ok \in BOOLEAN : HistoryLookup(p, ok)
    \/ \E ok \in BOOLEAN : HistoryWrite(p, ok)
    \/ SliceUnconnected(p)
    \/ \E ok \in BOOLEAN : ExecuteQuery(p, ok)
    \/ \E ok \in BOOLEAN : FetchData(p, ok)

\* ---------------------------------------------------------- specifications
\* Spec: one caller makes doQuery calls one after another, in any mode, with
\* the pagination arguments left alone (no window, one threshold and limit).
SeqProcs == {"q1"}

Next ==
    \E p \in SeqProcs :
        \/ \E m \in Modes, sf \in SearchFilters, rel \in Releases, c \in CompileOutcomes :
                Construct(p, m, sf, rel, FALSE, MaxThreshold, MaxLimit, c, "cube")
        \/ Run(p, None, None)
        \/ LocalStep(p)
        \/ \E o \in RemoteOutcomes : RunRemote(p, o)
        \/ Discard(p)

Spec == Init /\ [][Next]_vars

\* SpecSlice: one local doQuery call, over every threshold, limit, return_all
\* and window.
NextSlice ==
    \E p \in SeqProcs :
        \/ \E sf \in SearchFilters, rel \in Releases, retall \in BOOLEAN,
              threshold \in 0..MaxThreshold, lim \in 1..MaxLimit :
                Construct(p, "local", sf, rel, retall, threshold, lim, "ok", "cube")
        \/ \E s \in Opt(0..MaxIdx), e \in Opt(0..MaxIdx) : Run(p, s, e)
        \/ LocalStep(p)

SpecSlice == Init /\ [][NextSlice]_vars

\* SpecConc: two callers make one local doQuery call each, at the same time.
NextConc ==
    \E p \in Procs :
        \/ \E sf \in SearchFilters, rel \in Releases :
                Construct(p, "local", sf, rel, FALSE, MaxThreshold, MaxLimit, "ok", "cube")
        \/ Run(p, None, None)
        \/ LocalStep(p)

SpecConc == Init /\ [][NextConc]_vars

\* ------------------------------------------------------------ properties
\* the window of the Query p is fixed: _slice_query has returned
Sliced(p) == pc[p] \in {"SLICED", "FETCHING", "DONE"}

\* the rows of table h kept for the compiled text and release of the Query p
RowsOf(h, p) == Matching(h, Show(search_filter[p]), release[p])

\* the stage of the run of p: the history bookkeeping of _slice_query belongs
\* to COUNTING, the window is fixed from SLICED on
Stage(p) == IF pc[p] \in {"SLICING", "WRITING"} THEN "COUNTING" ELSE pc[p]

\* C1: a local run without a start/end window and with return_all = False
\* serves exactly [0, limit) whenever the total count exceeds count_threshold.
C1_WindowCollapsesToLimit ==
    \A p \in Procs :
        (/\ Sliced(p)
         /\ start[p] = None /\ end[p] = None
         /\ ~return_all[p]
         /\ Val(totalcount[p]) > count_threshold[p])
        => /\ _start[p] = Some(0)
           /\ _end[p] = Some(limit[p])
           /\ _count[p] = Some(limit[p])
           /\ query[p] = Some(<<Some(0), Some(limit[p])>>)

C1_Witness ==
    \E p \in Procs :
        /\ pc[p] = "DONE"
        /\ start[p] = None /\ end[p] = None
        /\ ~return_all[p]
        /\ Val(totalcount[p]) > count_threshold[p]
        /\ limit[p] # count_threshold[p]

\* C2: a run with an explicit window start >= 0, end > start and
\* return_all = False applies and reports exactly [start, end) and serves
\* end - start rows, whatever the total count, threshold and limit.
C2_ExplicitWindowHonoured ==
    \A p \in Procs :
        (/\ Sliced(p)
         /\ start[p] # None /\ end[p] # None
         /\ Val(end[p]) > Val(start[p])
         /\ ~return_all[p])
        => /\ _start[p] = start[p]
           /\ _end[p] = end[p]
           /\ _count[p] = Some(Val(end[p]) - Val(start[p]))
           /\ query[p] = Some(<<start[p], end[p]>>)

\* C3: with return_all = True and no window argument a local run applies no
\* window (start and end both None), whatever the total, threshold and limit.
C3_ReturnAllUnwindowed ==
    \A p \in Procs :
        (/\ Sliced(p)
         /\ start[p] = None /\ end[p] = None
         /\ return_all[p])
        => /\ _start[p] = None
           /\ _end[p] = None
           /\ query[p] = Some(<<None, None>>)

C3_Witness ==
    \E p \in Procs :
        /\ pc[p] = "DONE"
        /\ start[p] = None /\ end[p] = None
        /\ return_all[p]
        /\ Val(totalcount[p]) > count_threshold[p]

\* C4: two concurrent local executions of the same compiled text and release,
\* both finished with the store connected, leave exactly one history row for
\* it, whose run counter counts both.
C4_OneRowForConcurrentRuns ==
    (/\ isdbconnected
     /\ pc["q1"] = "DONE" /\ pc["q2"] = "DONE"
     /\ search_filter["q1"] = search_filter["q2"]
     /\ release["q1"] = release["q2"])
    => /\ Cardinality(RowsOf(history, "q1")) = 1
       /\ history[Val(RowsOf(history, "q1"))].n_run = 2

\* C5: executions of the same compiled text and release one after the other,
\* store connected: the first inserts the one history row with n_run = 1, each
\* later one raises that row's n_run by exactly 1 and inserts nothing.
C5_IncrementByOne ==
    [][\A p \in Procs :
        (pc[p] = "WRITING" /\ pc'[p] = "SLICED")
        => LET before == RowsOf(history, p)
               after == Matching(history', Show(search_filter[p]), release[p])
           IN  /\ Cardinality(after) = 1
               /\ Len(history') = Len(history) + (IF before = {} THEN 1 ELSE 0)
               /\ history'[Val(after)].n_run =
                      IF before = {} THEN 1 ELSE history[Val(before)].n_run + 1
               /\ \A i \in (1..Len(history)) \ before : history'[i] = history[i]]_vars

C5_Witness ==
    \E p \in Procs :
        /\ pc[p] = "DONE"
        /\ wrote[p] = "increment"
        /\ Cardinality(RowsOf(history, p)) = 1
        /\ history[Val(RowsOf(history, p))].n_run = 2

\* C6: in COUNTING with the store connected, a history row for the compiled
\* text and release gives the total count and no live count is issued; a live
\* count is issued only without such a row or with the store not connected.
C6_StoredCountReused ==
    [][\A p \in Procs :
        pc[p] = "COUNTING"
        => LET rows == RowsOf(history, p)
           IN  /\ (isdbconnected /\ rows # {} /\ pc'[p] = "SLICING")
                   => /\ totalcount'[p] = history[Val(rows)].count
                      /\ livecounts'[p] = 0
               /\ livecounts'[p] > 0 => (~isdbconnected \/ rows = {})]_vars

C6_Witness ==
    \E p \in Procs :
        /\ pc[p] = "SLICING"
        /\ isdbconnected
        /\ livecounts[p] = 0
        /\ RowsOf(history, p) # {}
        /\ totalcount[p] = history[Val(RowsOf(history, p))].count

\* C7: a local run that fails because the store is unreachable, at whatever
\* stage, has written nothing to the history table.
C7_FailedRunWroteNothing ==
    \A p \in Procs :
        (pc[p] = "FAILED" /\ data_origin[p] = "db" /\ err[p] = "OperationalError")
        => wrote[p] = "none"

\* the run of p, a Query built with a search filter, failed in the history
\* bookkeeping: in the lookup of COUNTING (before any live count), or in
\* _slice_query between the count and the window
BookkeepingFailed(p) ==
    /\ pc[p] = "FAILED"
    /\ data_origin[p] = "db"
    /\ search_filter[p] # NoFilter
    /\ \/ totalcount[p] = None /\ livecounts[p] = 0
       \/ totalcount[p] # None /\ query[p] = None

\* C8: no local run is stopped by a failure of the history lookup or of the
\* insert-or-increment; such a failure never keeps it from FETCHING.
C8_BookkeepingNeverFails ==
    \A p \in Procs : ~BookkeepingFailed(p)

\* the stage changes a local run may make
StageOrder ==
    {<<"COMPILED", "COUNTING">>, <<"COUNTING", "SLICED">>, <<"SLICED", "FETCHING">>,
     <<"FETCHING", "DONE">>, <<"COUNTING", "FAILED">>, <<"SLICED", "FAILED">>,
     <<"FETCHING", "FAILED">>}

\* C9: a local run passes COMPILED, COUNTING, SLICED, FETCHING, DONE in that
\* order without skipping one; rows are fetched only with the total count
\* known and the window fixed; it ends in DONE without an error or in FAILED
\* with the error raised.
C9_StagesInOrder ==
    /\ [](\A p \in Procs :
            /\ (data_origin[p] = "db" /\ pc[p] \in {"FETCHING", "DONE"})
                => totalcount[p] # None /\ query[p] # None /\ _count[p] # None
            /\ pc[p] = "DONE" => err[p] = "none"
            /\ pc[p] = "FAILED" => err[p] # "none")
    /\ [][\A p \in Procs :
            (data_origin[p] = "db" /\ pc[p] \notin {"DONE", "FAILED"}
                /\ Stage(p) # Stage(p)')
            => <<Stage(p), Stage(p)'>> \in StageOrder]_vars

C9_Witness ==
    \E p \in Procs :
        /\ pc[p] = "DONE"
        /\ data_origin[p] = "db"
        /\ wrote[p] = "insert"

\* C10 as stated: in auto mode a local compilation or execution that fails
\* with a connectivity error has fallen back to remote mode exactly once.
C10_ConnectivityFailureFallsBack ==
    \A p \in Procs :
        (reqmode[p] = "auto" /\ err[p] = "OperationalError") => fallbacks[p] = 1

\* C10 amended: the one fallback to remote mode is made in auto mode when, and
\* only when, no local database is configured (the set-up of local mode at
\* construction fails); a failure of the local compilation or of a local run,
\* a connectivity failure included, is raised without a fallback; modes local
\* and remote never fall back; no request falls back twice.
C10_FallbackOnlyWithoutLocalDb ==
    \A p \in Procs :
        /\ fallbacks[p] \in {0, 1}
        /\ pc[p] # "new" =>
              (fallbacks[p] = 1 <=> (reqmode[p] = "auto" /\ ~config_db))
        /\ (fallbacks[p] = 1 /\ pc[p] # "NOQUERY") => data_origin[p] = "api"
        /\ err[p] = "OperationalError" => fallbacks[p] = 0

C10_Witness ==
    \E p \in Procs :
        /\ reqmode[p] = "auto"
        /\ fallbacks[p] = 1
        /\ pc[p] = "DONE"
        /\ mode[p] = "remote"

\* ------------------------------------------------------ local compilation
\* the parameter catalog (_marvinform._param_form_lookup): the table of the
\* column a field name maps to
TableOf(f) ==
    CASE f \in {"cube.mangaid", "cube.plateifu", "cube.ra", "cube.dec"} -> "cube"
      [] f \in {"nsa.z", "nsa.elpetro_mass", "nsa.sersic_n"} -> "nsa"
      [] f = "bintype.name" -> "bintype"
      [] f = "template.name" -> "template"
      [] OTHER -> "spaxelprop"

\* _nameShortcuts: the full name of a return parameter given by its shortcut
NameShortcut(rp) == IF rp = "haflux" THEN "spaxelprop.emline_gflux_ha_6564" ELSE rp

\* _marvinform.look_up_table: the model class of a table name, "None" when
\* there is no such table
LookUpTable(name) ==
    IF name \in {"cube", "ifudesign", "nsa", "bintype", "template", "spaxelprop"}
    THEN name ELSE "None"

\* the arguments of Query(): return_type, default_params, return_params, the
\* fields of search_filter (none when there is no filter) and nexus
ReturnTypes == {"None", "cube", "spaxel", "maps", "rss", "modelcube", "galaxy"}
DefaultLists == {None, Some(<<>>), Some(<<"cube.ra">>), Some(<<"nsa.z">>),
                 Some(<<"cube.mangaid", "cube.plateifu">>)}
ReturnLists == {<<>>, <<"cube.ra", "cube.dec">>, <<"cube.ra", "cube.ra">>,
                <<"cube.plateifu">>, <<"haflux">>,
                <<"nsa.z", "nsa.elpetro_mass", "nsa.sersic_n">>}
FilterFields == {<<>>, <<"nsa.z", "nsa.elpetro_mass">>, <<"cube.ra">>,
                 <<"spaxelprop.emline_gflux_ha_6564">>}
Nexuses == {"cube", "nsa", "None"}

\* the values passed as search_filter, each named by its Python literal:
\* None, non-strings that are false and that are true, and strings
FilterValues == {"None", "0", "[]", "{}", "''", "5", "['nsa.z < 0.1']",
                 "nsa.z < 0.1 and nsa.elpetro_mass > 1e10", "cube.ra > 5",
                 "spaxelprop.emline_gflux_ha_6564 > 25"}

\* isinstance(v, six.string_types)
IsString(v) == v \notin {"None", "0", "[]", "{}", "5", "['nsa.z < 0.1']"}

\* `not v`
Falsy(v) == v \in {"None", "0", "[]", "{}", "''"}

\* parsed.uniqueparams of parse_boolean_search(v): the fields v names
UniqueParams(v) ==
    CASE v = "nsa.z < 0.1 and nsa.elpetro_mass > 1e10" -> <<"nsa.z", "nsa.elpetro_mass">>
      [] v = "cube.ra > 5" -> <<"cube.ra">>
      [] v = "spaxelprop.emline_gflux_ha_6564 > 25" -> <<"spaxelprop.emline_gflux_ha_6564">>
      [] OTHER -> <<>>

Range(s) == {s[i] : i \in 1..Len(s)}

\* the items of list s that are not in list t, in order
NotIn(s, t) == LET keep(x) == x \notin Range(t) IN SelectSeq(s, keep)

\* what lines 744-754 append to the defaults for a return type
TypeDefaults(rt) ==
    CASE rt = "cube" -> <<"cube.mangaid", "cube.plateifu">>
      [] rt \in {"modelcube", "maps"} -> <<"bintype.name", "template.name">>
      [] OTHER -> <<>>

\* default_params is the caller's own list object: `self.default_params or
\* [...]` (line 742) makes a new list only for None and for the empty list
Aliased == arg_default_params # None /\ Val(arg_default_params) # <<>>

\* _set_defaultparams (lines 722-758)
SetDefaultParams ==
    /\ cpc = "start"
    /\ IF return_type \notin {"None", "cube", "spaxel", "maps", "rss", "modelcube"}
       THEN /\ cpc' = "AssertionError"
            /\ UNCHANGED <<arg_default_params, default_params, params>>
       ELSE LET defaults == (IF Aliased THEN Val(arg_default_params)
                             ELSE <<"cube.mangaid", "cube.plateifu">>)
                            \o TypeDefaults(return_type)
            IN  /\ default_params' = defaults
                /\ arg_default_params' = IF Aliased THEN Some(defaults)
                                         ELSE arg_default_params
                /\ params' = params \o defaults
                /\ cpc' = "defaults"
    /\ UNCHANGED <<return_type, return_params, filter_arg, uniqueparams, nexus, projection,
                   _modellist, anchor>>
    /\ UNCHANGED <<runmodel, pipevars, percvars, fetchvars, shortvars>>

\* _set_returnparams (lines 760-778)
SetReturnParams ==
    /\ cpc = "defaults"
    /\ LET full_returnparams == [i \in 1..Len(return_params) |->
                                    NameShortcut(return_params[i])]
           use_only == NotIn(full_returnparams, default_params)
       IN  /\ return_params' = full_returnparams
           /\ params' = params \o use_only
    /\ cpc' = "returns"
    /\ UNCHANGED <<return_type, arg_default_params, default_params, filter_arg, uniqueparams,
                   nexus, projection, _modellist, anchor>>
    /\ UNCHANGED <<runmodel, pipevars, percvars, fetchvars, shortvars>>

\* FilterKeys with the fields of the filter kept out of the parameters
FilterKeysLeftOut(keys, ps) == <<>>

\* the filter fields _parse_sql_string adds to the parameters (line 806)
FilterKeys(keys, ps) == NotIn(keys, ps)

\* _set_filter and _parse_sql_string (lines 780-807): nothing is done for a
\* filter that is false, a true non-string raises, a string is parsed
SetFilter ==
    /\ cpc = "returns"
    /\ IF Falsy(filter_arg)
       THEN cpc' = "filter" /\ UNCHANGED params
       ELSE IF ~IsString(filter_arg)
       THEN cpc' = "MarvinError" /\ UNCHANGED params
       ELSE /\ params' = params \o FilterKeys(uniqueparams, params)
            /\ cpc' = "filter"
    /\ UNCHANGED <<return_type, arg_default_params, default_params, return_params,
                   filter_arg, uniqueparams, nexus, projection, _modellist, anchor>>
    /\ UNCHANGED <<runmodel, pipevars, percvars, fetchvars, shortvars>>

\* the comprehension of lines 884 and 886: the items of s that are in set(s)
InOwnSet(s) == LET keep(x) == x \in Range(s) IN SelectSeq(s, keep)

\* _set_query_parameters (lines 875-887)
SetQueryParameters ==
    /\ cpc = "filter"
    /\ LET dap == \E i \in 1..Len(params) :
                      TableOf(params[i]) \in {"spaxelprop", "modelspaxel"}
           dapcols == IF dap THEN <<"spaxelprop.x", "spaxelprop.y", "bintype.name",
                                    "template.name">>
                      ELSE <<>>
       IN  /\ default_params' = default_params \o dapcols
           /\ arg_default_params' = IF Aliased THEN Some(default_params \o dapcols)
                                    ELSE arg_default_params
           /\ params' = InOwnSet(params \o dapcols)
    /\ cpc' = "qparams"
    /\ UNCHANGED <<return_type, return_params, filter_arg, uniqueparams, nexus, projection,
                   _modellist, anchor>>
    /\ UNCHANGED <<runmodel, pipevars, percvars, fetchvars, shortvars>>

\* _create_base_query (lines 889-894): one labelled column for each item of
\* _query_params, which has one column for each item of params
CreateBaseQuery ==
    /\ cpc = "qparams"
    /\ projection' = [i \in 1..Len(InOwnSet(params)) |-> params[i]]
    /\ cpc' = "base"
    /\ UNCHANGED <<return_type, arg_default_params, default_params, return_params,
                   filter_arg, uniqueparams, params, nexus, _modellist, anchor>>
    /\ UNCHANGED <<runmodel, pipevars, percvars, fetchvars, shortvars>>

\* the loop of lines 906-913 over the first n parameters: each model class
\* once, and IFUDesign once a column of plateifu is met
RECURSIVE ModelList(_, _)
ModelList(ps, n) ==
    IF n = 0 THEN <<>>
    ELSE LET ml == ModelList(ps, n - 1)
             m1 == IF TableOf(ps[n]) \in Range(ml) THEN ml
                   ELSE Append(ml, TableOf(ps[n]))
         IN  IF ps[n] = "cube.plateifu" /\ "ifudesign" \notin Range(m1)
             THEN Append(m1, "ifudesign") ELSE m1

\* Counter(ml).most_common(1): the items of ml met most often; which of them
\* comes first is left to the ordering of the Counter
MostCommon(ml) ==
    LET count(t) == Cardinality({i \in 1..Len(ml) : ml[i] = t})
    IN  {t \in Range(ml) : \A u \in Range(ml) : count(u) <= count(t)}

\* _join_tables (lines 896-928) up to the call of getJoins: a has the nexus
\* handed over, "None" when there is one table and nothing to join
JoinTables(a) ==
    /\ cpc = "base"
    /\ LET ml == ModelList(projection, Len(projection))
       IN  /\ _modellist' = ml
           /\ IF Cardinality(Range(ml)) = 1 THEN a = "None"
              ELSE IF LookUpTable(nexus) # "None" THEN a = LookUpTable(nexus)
              ELSE a \in MostCommon(ml)
    /\ anchor' = a
    /\ cpc' = "joined"
    /\ UNCHANGED <<return_type, arg_default_params, default_params, return_params,
                   filter_arg, uniqueparams, params, nexus, projection>>
    /\ UNCHANGED <<runmodel, pipevars, percvars, fetchvars, shortvars>>

\* SpecCompile: one local compilation for every choice of the arguments
InitCompile ==
    /\ InitRun /\ config_db /\ config_urlmap /\ isdbconnected
    /\ PipelineIdle /\ PercentIdle /\ FetchIdle /\ ShortcutIdle
    /\ cpc = "start"
    /\ return_type \in ReturnTypes
    /\ arg_default_params \in DefaultLists
    /\ default_params = (IF arg_default_params = None THEN <<>>
                         ELSE Val(arg_default_params))
    /\ return_params \in ReturnLists
    /\ filter_arg \in FilterValues
    /\ uniqueparams \in FilterFields
    /\ uniqueparams = UniqueParams(filter_arg)
    /\ params = <<>>
    /\ nexus \in Nexuses
    /\ projection = <<>>
    /\ _modellist = <<>>
    /\ anchor = "None"

NextCompile ==
    \/ SetDefaultParams
    \/ SetReturnParams
    \/ SetFilter
    \/ SetQueryParameters
    \/ CreateBaseQuery
    \/ \E a \in {"None", "cube", "ifudesign", "nsa", "bintype", "template",
                 "spaxelprop"} : JoinTables(a)

SpecCompile == InitCompile /\ [][NextCompile]_vars

\* the compilation has set the defaults / has built the base query
DefaultsSet == cpc \in {"defaults", "returns", "filter", "qparams", "base", "joined"}
Compiled == cpc \in {"base", "joined"}

NoRepeats(s) == \A i, j \in 1..Len(s) : s[i] = s[j] => i = j

\* C11: whatever the return type and the caller's default list, the default
\* field list holds cube.mangaid and cube.plateifu
C11_IdentifiersAlwaysDefault ==
    DefaultsSet => {"cube.mangaid", "cube.plateifu"} \subseteq Range(default_params)

\* C12: for the return type spaxel the compiled default field list holds
\* spaxelprop.x and spaxelprop.y
C12_SpaxelDefaultsHaveCoordinates ==
    (Compiled /\ return_type = "spaxel")
        => {"spaxelprop.x", "spaxelprop.y"} \subseteq Range(default_params)

\* C13: after compilation no field is twice in params or in the projection
C13_NoFieldTwice ==
    Compiled => NoRepeats(params) /\ NoRepeats(projection)

\* the compilation of Query(return_type='cube', return_params=['cube.ra',
\* 'cube.dec'], search_filter over nsa.z and nsa.elpetro_mass)
CubeWithNsaFilter ==
    /\ return_type = "cube"
    /\ arg_default_params = None
    /\ return_params = <<"cube.ra", "cube.dec">>
    /\ uniqueparams = <<"nsa.z", "nsa.elpetro_mass">>

MostReferenced(ps) ==
    LET refs(t) == Cardinality({f \in Range(ps) : TableOf(f) = t})
    IN  {TableOf(f) : f \in {g \in Range(ps) :
            \A h \in Range(ps) : refs(TableOf(h)) <= refs(TableOf(g))}}

\* C15: with no nexus given, the nexus handed to the join resolution is a
\* table that the largest number of required fields map to
C15_AnchorIsMostReferenced ==
    (cpc = "joined" /\ nexus = "None" /\ anchor # "None")
        => anchor \in MostReferenced(params)

\* ------------------------------------------------------ the pipeline filter
\* the tables a compiled query can hold: of the DRP schema, the sample
\* schema and the DAP schema
JoinableTables == {"cube", "ifudesign", "nsa", "file", "spaxelprop", "modelspaxel",
                   "modelcube"}

\* the name of a table as the characters of the SQL text
Rendered(t) ==
    CASE t = "cube"        -> <<"c", "u", "b", "e">>
      [] t = "ifudesign"   -> <<"i", "f", "u", "d", "e", "s", "i", "g", "n">>
      [] t = "nsa"         -> <<"n", "s", "a">>
      [] t = "file"        -> <<"f", "i", "l", "e">>
      [] t = "spaxelprop"  -> <<"s", "p", "a", "x", "e", "l", "p", "r", "o", "p">>
      [] t = "modelspaxel" -> <<"m", "o", "d", "e", "l", "s", "p", "a", "x", "e", "l">>
      [] OTHER             -> <<"m", "o", "d", "e", "l", "c", "u", "b", "e">>

\* Python's `word in text` on strings
Contains(text, word) ==
    \E i \in 1..(Len(text) - Len(word) + 1) :
        SubSeq(text, i, i + Len(word) - 1) = word

\* `word in str(...)` for the text of a query over the tables ts: the names
\* of the tables, set apart by characters that are in no table name
TextHas(ts, word) == \E t \in ts : Contains(Rendered(t), word)

\* _table_in_query (lines 941-954): the from-object of the query exists once
\* a join was made
TableInQuery(ts, word) == Cardinality(ts) > 1 /\ TextHas(ts, word)

\* inclasses of _get_pipe_info (lines 1031-1034)
InClasses(ts, word) == TableInQuery(ts, word) \/ TextHas(ts, word)

\* _add_pipeline (lines 1002-1019) with _get_pipe_info (lines 1021-1048):
\* drpfound / dapfound tell whether .one() finds the pipeline row
AddPipeline(drpfound, dapfound) ==
    /\ ppc = "joined"
    /\ LET drpin == InClasses(jointables, Rendered("cube"))
           dapin == InClasses(jointables, Rendered("file"))
       IN  IF (drpin /\ ~drpfound) \/ (dapin /\ ~dapfound)
           THEN /\ ppc' = "NoResultFound"
                /\ UNCHANGED <<drppipe, dappipe>>
           ELSE /\ ppc' = "piped"
                /\ drppipe' = drpin
                /\ dappipe' = dapin
    /\ UNCHANGED jointables
    /\ UNCHANGED <<runmodel, compvars, percvars, fetchvars, shortvars>>

\* SpecPipeline: _add_pipeline on a query over every set of tables
InitPipeline ==
    /\ InitRun /\ config_db /\ config_urlmap /\ isdbconnected
    /\ CompileIdle /\ PercentIdle /\ FetchIdle /\ ShortcutIdle
    /\ ppc = "joined"
    /\ jointables \in (SUBSET JoinableTables) \ {{}}
    /\ drppipe = FALSE
    /\ dappipe = FALSE

NextPipeline == \E drpfound \in BOOLEAN, dapfound \in BOOLEAN :
                    AddPipeline(drpfound, dapfound)

SpecPipeline == InitPipeline /\ [][NextPipeline]_vars

\* C16: the DRP filter is attached exactly when the cube table is in the
\* compiled join and the DAP filter exactly when the file table is; with the
\* table absent the filter is skipped and the compilation does not fail
C16_FilterIffTablePresent ==
    /\ ppc = "piped" => /\ drppipe <=> "cube" \in jointables
                        /\ dappipe <=> "file" \in jointables
    /\ ppc = "NoResultFound" => ("cube" \in jointables \/ "file" \in jointables)

\* ------------------------------------------- the npergood function condition
\* opdict (line 41), '==' being the same entry as '='
Operators == {"<=", ">=", ">", "<", "!=", "="}
Op(o, a, b) ==
    CASE o = "<=" -> a <= b
      [] o = ">=" -> a >= b
      [] o = ">"  -> a > b
      [] o = "<"  -> a < b
      [] o = "!=" -> a # b
      [] OTHER    -> a = b

\* the percentages of the function condition
Percentages == {0, 50, 100}

\* the groups of rows of one file_pk: vs valid rows that satisfy the inner
\* condition, vu valid rows that do not, is / iu the same for the rows with
\* binid = -1
Groups == {g \in [vs : 0..MaxGroupRows, vu : 0..MaxGroupRows,
                  is : 0..MaxGroupRows, iu : 0..MaxGroupRows] :
              g.vs + g.vu + g.is + g.iu > 0}

\* a grouped count subquery has a row for a group only when it counts a row
CountRow(n) == IF n = 0 THEN None ELSE Some(n)

\* _get_good_spaxels (lines 1119-1142): the rows with binid != -1, all rows
\* for the clean table
GetGoodSpaxels(g, cls) ==
    IF cls = "CleanSpaxelProp" THEN CountRow(g.vs + g.vu + g.is + g.iu)
    ELSE CountRow(g.vs + g.vu)

\* _get_count_of (lines 1144-1174): the rows that satisfy the inner condition
GetCountOf(g) == CountRow(g.vs + g.is)

\* the filter of line 1211 on the rows the two joins of lines 1209-1210
\* leave: valcount op percent * goodcount, with percent = value / 100
PercentFilter(o, value, good, val) ==
    /\ good # None
    /\ val # None
    /\ Op(o, 100 * Val(val), value * Val(good))

\* _get_percent (lines 1176-1215)
GetPercent ==
    /\ gpc = "start"
    /\ goodcount' = GetGoodSpaxels(group, spaxelclass)
    /\ valcount' = GetCountOf(group)
    /\ kept' = PercentFilter(op2, t2, GetGoodSpaxels(group, spaxelclass),
                             GetCountOf(group))
    /\ gpc' = "done"
    /\ UNCHANGED <<spaxelclass, group, op2, t2>>
    /\ UNCHANGED <<runmodel, compvars, pipevars, fetchvars, shortvars>>

\* SpecPercent: the rewrite of npergood(inner) op2 t2 on every group; the
\* clean table has no row with binid = -1
InitPercent ==
    /\ InitRun /\ config_db /\ config_urlmap /\ isdbconnected
    /\ CompileIdle /\ PipelineIdle /\ FetchIdle /\ ShortcutIdle
    /\ gpc = "start"
    /\ spaxelclass \in {"SpaxelProp", "CleanSpaxelProp"}
    /\ group \in Groups
    /\ spaxelclass = "CleanSpaxelProp" => group.is = 0 /\ group.iu = 0
    /\ op2 \in Operators
    /\ t2 \in Percentages
    /\ goodcount = None
    /\ valcount = None
    /\ kept = FALSE

NextPercent == GetPercent

SpecPercent == InitPercent /\ [][NextPercent]_vars

\* the counts n1 and n2 of the group, 0 when its subquery has no row for it
CountOrZero(c) == IF c = None THEN 0 ELSE Val(c)

\* C17: a group is kept exactly when n2 op2 (t2 / 100) * n1, for each of the
\* six operators and for every group with valid rows, those with n2 = 0
\* included
C17_KeptIffPercentHolds ==
    (gpc = "done" /\ goodcount # None) =>
        (kept <=> Op(op2, 100 * CountOrZero(valcount), t2 * CountOrZero(goodcount)))

\* C18: n2 counts the valid rows of the group that satisfy the inner
\* condition, so it never exceeds n1
C18_CountOfCountsValidRows ==
    gpc = "done" => /\ CountOrZero(valcount) = group.vs
                    /\ CountOrZero(valcount) <= CountOrZero(goodcount)

\* --------------------------------------------------------------- the fetch
\* Batch with fetchmany handing over every row that is left
BatchWhole(left, n) == left

\* obj.fetchmany(n): the number of rows handed over when left rows are left
Batch(left, n) == IF left < n THEN left ELSE n

\* _fetch_data without return_all (lines 633-634): one fetchall
FetchAll ==
    /\ fpc = "start"
    /\ ~fetch_all
    /\ reslist' = cursor
    /\ cursor' = 0
    /\ fpc' = "done"
    /\ UNCHANGED <<fetch_all, n_rows, resultsize, batch>>
    /\ UNCHANGED <<runmodel, compvars, pipevars, percvars, shortvars>>

\* one turn of the loop of _fetch_data with return_all (lines 636-641)
FetchMany ==
    /\ fpc \in {"start", "loop"}
    /\ fetch_all
    /\ LET got == Batch(cursor, n_rows)
       IN  /\ batch' = got
           /\ cursor' = cursor - got
           /\ IF got > 0
              THEN reslist' = reslist + got /\ fpc' = "loop"
              ELSE UNCHANGED reslist /\ fpc' = "done"
    /\ UNCHANGED <<fetch_all, n_rows, resultsize>>
    /\ UNCHANGED <<runmodel, compvars, pipevars, percvars, shortvars>>

\* SpecFetch: one _fetch_data call for every result size, n_rows and
\* return_all
InitFetch ==
    /\ InitRun /\ config_db /\ config_urlmap /\ isdbconnected
    /\ CompileIdle /\ PipelineIdle /\ PercentIdle /\ ShortcutIdle
    /\ fpc = "start"
    /\ fetch_all \in BOOLEAN
    /\ n_rows \in 1..MaxChunk
    /\ resultsize \in 0..MaxResult
    /\ cursor = resultsize
    /\ batch = 0
    /\ reslist = 0

NextFetch == FetchAll \/ FetchMany

SpecFetch == InitFetch /\ [][NextFetch]_vars

\* C19 as stated: fetching with return_all a result larger than one batch,
\* no batch is larger than n_rows and the whole result is never held
C19_NeverWholeResultInMemory ==
    (fetch_all /\ resultsize > n_rows)
        => batch <= n_rows /\ reslist < resultsize

\* C19 amended: fetching with return_all, no batch is larger than n_rows,
\* every row handed over is kept in the one list res, and when the fetch
\* ends that list holds the whole result
C19_BatchesAccumulate ==
    fetch_all => /\ batch <= n_rows
                 /\ reslist + cursor = resultsize
                 /\ fpc = "done" => reslist = resultsize

C19_Witness ==
    /\ fetch_all
    /\ resultsize > 2 * n_rows
    /\ fpc = "done"
    /\ reslist = resultsize
    /\ batch = 0

\* ----------------------------------------------------------- the remote run
\* C20: a remote run that fails, in sending the request or in reading the
\* response, raises MarvinError to its caller
C20_RemoteFailureIsMarvinError ==
    \A p \in Procs :
        (pc[p] = "FAILED" /\ data_origin[p] = "api") => err[p] = "MarvinError"

\* ------------------------------------------------------- the nexus property
\* the nexus setter (lines 194-198): q.nexus = value on a built Query
SetNexus(p, value) ==
    /\ pc[p] \in {"COMPILED", "REMOTE"}
    /\ IF data_origin[p] = "db"
       THEN /\ _nexus' = [_nexus EXCEPT ![p] = value]
            /\ err' = [err EXCEPT ![p] = "none"]
       ELSE /\ err' = [err EXCEPT ![p] = "MarvinError"]
            /\ UNCHANGED _nexus
    /\ UNCHANGED <<reqmode, mode, data_origin, search_filter, release, return_all,
                   count_threshold, limit>>
    /\ UNCHANGED <<envvars, purevars, history, nruns, pc, runvars, fallbacks>>

\* SpecNexus: a Query is built in any mode with any nexus argument, and its
\* nexus assigned afterwards
\* the table names a caller pins as nexus; "cube" is also the default
PinnedNexuses == {"cube", "nsa", "ifudesign", "spaxelprop"}

NextNexus ==
    \E p \in SeqProcs :
        \/ \E m \in Modes, rel \in Releases, nx \in PinnedNexuses :
                Construct(p, m, NoFilter, rel, FALSE, MaxThreshold, MaxLimit, "ok", nx)
        \/ \E value \in PinnedNexuses : SetNexus(p, value)

SpecNexus == Init /\ [][NextNexus]_vars

\* C21: a Query whose data origin is not the local store never holds a
\* pinned nexus: the pin is rejected at construction and on assignment
C21_NexusPinnedOnlyLocally ==
    \A p \in Procs :
        (pc[p] = "REMOTE" /\ data_origin[p] # "db") => _nexus[p] = "cube"

\* ------------------------------------------------------ non-string filters
\* C22: a search filter that is neither a string nor None never gets past
\* _set_filter: the compilation raises before anything is parsed or built
C22_NonStringFilterRejected ==
    (~IsString(filter_arg) /\ filter_arg # "None")
        => cpc \notin {"filter", "qparams", "base", "joined"}

\* ------------------------------------------------ shortcuts in the filter
\* the characters of a filter text: \w characters and others
WordChars == {"a", "b"}
Alphabet == WordChars \cup {".", " "}
Texts == UNION {[1..k -> Alphabet] : k \in 0..MaxText}

\* the registered shortcut maps: none; a key whose full name is another
\* word; a key whose full name holds the key inside a longer word; a key
\* whose full name is a dotted path ending in the key; two keys
ShortcutMaps ==
    { <<>>,
      << <<(<<"a">>), <<"b">>>> >>,
      << <<(<<"a">>), <<"b", "a">>>> >>,
      << <<(<<"a">>), <<"b", ".", "a">>>> >>,
      << <<(<<"a">>), <<"b">>>>, <<(<<"b">>), <<"a", "b">>>> >> }

\* r'\bkey\b' matches text at position i
MatchAt(text, key, i) ==
    /\ i + Len(key) - 1 <= Len(text)
    /\ SubSeq(text, i, i + Len(key) - 1) = key
    /\ i = 1 \/ text[i - 1] \notin WordChars
    /\ i + Len(key) > Len(text) \/ text[i + Len(key)] \notin WordChars

\* re.sub(r'\bkey\b', full, text) from position i on: the matches from left
\* to right, what is put in not being searched again
RECURSIVE ReSub(_, _, _, _)
ReSub(text, key, full, i) ==
    IF i > Len(text) THEN <<>>
    ELSE IF MatchAt(text, key, i)
    THEN full \o ReSub(text, key, full, i + Len(key))
    ELSE <<text[i]>> \o ReSub(text, key, full, i + 1)

\* the loop of _check_shortcuts_in_filter (lines 819-824) over the first n
\* shortcuts of map m
RECURSIVE CheckShortcutsInFilter(_, _, _)
CheckShortcutsInFilter(text, m, n) ==
    IF n = 0 THEN text
    ELSE LET sofar == CheckShortcutsInFilter(text, m, n - 1)
         IN  IF Contains(sofar, m[n][1]) THEN ReSub(sofar, m[n][1], m[n][2], 1)
             ELSE sofar

\* _check_shortcuts_in_filter (lines 809-824) applied to the text once more
ApplyShortcuts ==
    /\ spc < 2
    /\ LET expanded == CheckShortcutsInFilter(filtertext, shortcuts, Len(shortcuts))
       IN  /\ filtertext' = expanded
           /\ firstpass' = IF spc = 0 THEN expanded ELSE firstpass
    /\ spc' = spc + 1
    /\ UNCHANGED shortcuts
    /\ UNCHANGED <<runmodel, compvars, pipevars, percvars, fetchvars>>

\* SpecShortcuts: the substitution applied twice, for every shortcut map and
\* filter text
InitShortcuts ==
    /\ InitRun /\ config_db /\ config_urlmap /\ isdbconnected
    /\ CompileIdle /\ PipelineIdle /\ PercentIdle /\ FetchIdle
    /\ spc = 0
    /\ shortcuts \in ShortcutMaps
    /\ filtertext \in Texts
    /\ firstpass = <<>>

NextShortcuts == ApplyShortcuts

SpecShortcuts == InitShortcuts /\ [][NextShortcuts]_vars

\* C23: applying the substitution to text that was already expanded gives
\* the same text
C23_SubstitutionIdempotent ==
    spc = 2 => filtertext = firstpass

\* ------------------------------------------------------- the served count
\* the number of rows query.slice(s, e) selects from total rows: all from s
\* on when e is None, from the first when s is None
RowsSelected(s, e, total) ==
    LET from == IF s = None THEN 0 ELSE Val(s)
        upto == IF e = None \/ Val(e) > total THEN total ELSE Val(e)
    IN  IF upto > from THEN upto - from ELSE 0

\* C24: after slicing, _count is the number of rows the applied window
\* selects from the total, and so never more than the total
C24_CountIsRowsSelected ==
    \A p \in Procs :
        Sliced(p) =>
            /\ Val(_count[p]) = RowsSelected(_start[p], _end[p], Val(totalcount[p]))
            /\ Val(_count[p]) <= Val(totalcount[p])

\* ------------------------------------------------- a run without a filter
\* C25: a local Query built with search_filter = None runs with the store
\* connected: its run() does not fail in the history lookup
C25_UnfilteredQueryRuns ==
    \A p \in Procs :
        (/\ search_filter[p] = NoFilter
         /\ data_origin[p] = "db"
         /\ isdbconnected
         /\ pc[p] = "FAILED")
        => err[p] # "AttributeError"

\* ------------------------------------------------- the caller's own list
\* C26: no step of the construction changes the list object the caller
\* passed as default_params
C26_CallerListUntouched == [][arg_default_params' = arg_default_params]_vars

\* ------------------------------------------------- mode and data origin
\* the stages of a constructed Query, and those of the local path of run()
Constructed(p) == pc[p] \notin {"new", "NOQUERY"}
LocalStages == {"COMPILED", "COUNTING", "SLICING", "WRITING", "SLICED", "FETCHING"}

\* C27: a constructed Query has (mode, data_origin) = (local, db) or
\* (remote, api); it was requested in mode local, remote or auto with a backend
\* that mode can use; and it is on the local path of run() only with origin db,
\* on the remote path only with origin api
C27_ModeAndOriginAgree ==
    \A p \in Procs :
        /\ Constructed(p) =>
              /\ <<mode[p], data_origin[p]>> \in {<<"local", "db">>, <<"remote", "api">>}
              /\ reqmode[p] \in {"local", "remote", "auto"}
              /\ reqmode[p] = "local" => config_db
              /\ reqmode[p] = "remote" => config_urlmap
              /\ reqmode[p] = "auto" => (config_db \/ config_urlmap)
        /\ pc[p] \in LocalStages => data_origin[p] = "db"
        /\ pc[p] = "REMOTE" => data_origin[p] = "api"

\* a Query requested in auto mode was resolved to local mode and run() took
\* the local path
C27_Witness ==
    \E p \in Procs :
        /\ reqmode[p] = "auto"
        /\ mode[p] = "local"
        /\ data_origin[p] = "db"
        /\ pc[p] = "COUNTING"

====
